---- MODULE Spec2Model ----
(***************************************************************************)
(* Model of orchestrator.py: one pass of run_orchestrator over the         *)
(* configured server list.  Every blocking remote call (HTTP probe, SSH    *)
(* connect / exec / wait / read, webhook post) is one step whose outcome   *)
(* is chosen by the environment.  An uncaught Python exception ends the    *)
(* process with exit status 1.                                             *)
(***************************************************************************)
EXTENDS Integers, Sequences, FiniteSets, TLC

\* ------------------------------------------------------------------
\* Bounds
\* ------------------------------------------------------------------
MaxServers == 2

\* ------------------------------------------------------------------
\* Texts are sequences of characters, so that substring and regex
\* search are computed and not assumed.
\* ------------------------------------------------------------------
NoText == << >>
T_OK == <<"O", "K">>
T_FAIL == <<"F", "A", "I", "L">>
T_ERR == <<"E">>
T_ready == <<"r", "e", "a", "d", "y">>
T_not_ready_yet == <<"n", "o", "t", " ", "r", "e", "a", "d", "y", " ", "y", "e", "t">>
T_down == <<"d", "o", "w", "n">>

\* Bug variant of Contains: `==` instead of `in`
ContainsWhole(haystack, needle) == haystack = needle

\* needle in haystack (Python's `in` on str)
Contains(haystack, needle) ==
    \E i \in 1..(Len(haystack) + 1) :
        /\ i + Len(needle) - 1 <= Len(haystack)
        /\ \A k \in 1..Len(needle) : haystack[i + k - 1] = needle[k]

\* Bug variant of ReSearch: re.fullmatch instead of re.search
ReFullMatch(pattern, text) == text = pattern.lit

\* re.search for patterns of the shape  ^? literal $?
ReSearch(pattern, text) ==
    \E i \in 1..(Len(text) + 1) :
        /\ i + Len(pattern.lit) - 1 <= Len(text)
        /\ \A k \in 1..Len(pattern.lit) : text[i + k - 1] = pattern.lit[k]
        /\ pattern.bol => i = 1
        /\ pattern.eol => i + Len(pattern.lit) - 1 = Len(text)

\* dict.get(key, default) on an optional field ({} = key absent)
Get(opt, default) == IF opt = {} THEN default ELSE CHOOSE v \in opt : TRUE

\* ------------------------------------------------------------------
\* Inputs: config file, environment, server records, remote outcomes
\* ------------------------------------------------------------------
YamlSuffixes == {".yaml", ".yml"}
JsonSuffix == ".json"
Suffixes == YamlSuffixes \cup {JsonSuffix, ".txt", ""}
FileStates == {"ok", "missing", "malformed"}

WebhookEnv == {{}, {""}, {"https://discord.example/hook"}}

DefaultExpectedStatus == 200

HttpDefault ==
    [type |-> {"http"}, expected_status |-> {}, contains |-> {},
     command |-> "", expect_stdout_regex |-> {},
     restart_command |-> {}, service |-> {"nginx"}]
CmdPlain ==
    [type |-> {"remote_cmd"}, expected_status |-> {}, contains |-> {},
     command |-> "systemctl is-active nginx", expect_stdout_regex |-> {},
     restart_command |-> {}, service |-> {"nginx"}]
UnknownType ==
    [type |-> {"tcp"}, expected_status |-> {}, contains |-> {},
     command |-> "", expect_stdout_regex |-> {},
     restart_command |-> {}, service |-> {"nginx"}]
NoType ==
    [type |-> {}, expected_status |-> {}, contains |-> {},
     command |-> "", expect_stdout_regex |-> {},
     restart_command |-> {"/opt/app/restart.sh"}, service |-> {"nginx"}]

\* The records the multi-server passes are drawn from; the optional keys
\* are varied exhaustively in the single-server passes of SpecHC.
ServerSpecs == {HttpDefault, CmdPlain, UnknownType, NoType}

ServerLists == UNION {[1..n -> ServerSpecs] : n \in 0..MaxServers}

HttpStatuses == {200, 500}
HttpBodies == {T_ready, T_not_ready_yet, T_down}
ExitCodes == {0, 1, -1}
Stdouts == {T_OK, T_FAIL}
Stderrs == {NoText, T_ERR}
\* what a remote command wrote: <<stdout, stderr>>
SshOutputs == {<<T_OK, NoText>>, <<T_FAIL, T_ERR>>}

ConnectFailures == {"NoValidConnectionsError", "AuthenticationException", "connect timeout"}
ExecFailures == {"SSHException"}
ReadFailures == {"read timeout"}
SshExceptions == ConnectFailures \cup ExecFailures \cup ReadFailures
ConfigErrors == {"FileNotFoundError", "YAMLError", "JSONDecodeError", "ValueError"}
PostOutcomes == {"2xx", "non2xx", "ConnectionError", "Timeout"}

\* ------------------------------------------------------------------
\* State
\* ------------------------------------------------------------------
VARIABLES
    cfgSuffix,      \* Path(config_file).suffix
    cfgFile,        \* what is on disk at that path
    webhook,        \* os.getenv("DISCORD_WEBHOOK"): {} when unset
    servers,        \* cfg.get("servers", [])
    pc,             \* position of the single thread of control
    idx,            \* position of s in servers
    caller,         \* who called run_ssh: "check" or "restart"
    cmd,            \* command given to run_ssh
    sshCode,        \* exit_code local of run_ssh
    detail,         \* detail returned by health_check
    msg,            \* msg built by run_orchestrator
    exc,            \* exception that left run_orchestrator
    exitStatus,     \* process exit status
    hcCalls,        \* calls of health_check, per server
    hcResult,       \* how health_check ended, per server
    restartCalls,   \* calls of restart_service, per server
    notifyCalls,    \* calls of notify_discord, per server
    postOutcome,    \* outcome of requests.post, per server
    httpGets,       \* requests.get calls made
    webhookPosts,   \* requests.post calls made
    sshOpened,      \* SSH sessions established
    openSessions,   \* SSH sessions established and not closed
    sshTarget,      \* position of the server record given to run_ssh
    respBody,       \* r.text of the response health_check is looking at
    events          \* calls made by the loop body so far, in order

vars == <<cfgSuffix, cfgFile, webhook, servers, pc, idx, caller, cmd, sshCode,
          detail, msg, exc, exitStatus, hcCalls, hcResult, restartCalls,
          notifyCalls, postOutcome, httpGets, webhookPosts, sshOpened,
          openSessions, sshTarget, respBody, events>>

cfgVars == <<cfgSuffix, cfgFile, webhook>>
countVars == <<hcCalls, restartCalls, notifyCalls, postOutcome, httpGets,
               webhookPosts, sshOpened, openSessions>>

Slots == 1..MaxServers

NoDetail == [kind |-> "none", code |-> 0, out |-> NoText, err |-> NoText]
NoMsg == [text |-> "none", code |-> 0, out |-> NoText, err |-> NoText]

Init ==
    /\ cfgSuffix \in Suffixes
    /\ cfgFile \in FileStates
    /\ webhook \in WebhookEnv
    /\ servers = << >>
    /\ pc = "start"
    /\ idx = 0
    /\ caller = "none"
    /\ cmd = <<"none">>
    /\ sshCode = 0
    /\ detail = NoDetail
    /\ msg = NoMsg
    /\ exc = "none"
    /\ exitStatus = "running"
    /\ hcCalls = [i \in Slots |-> 0]
    /\ hcResult = [i \in Slots |-> "none"]
    /\ restartCalls = [i \in Slots |-> 0]
    /\ notifyCalls = [i \in Slots |-> 0]
    /\ postOutcome = [i \in Slots |-> "none"]
    /\ httpGets = 0
    /\ webhookPosts = 0
    /\ sshOpened = 0
    /\ openSessions = 0
    /\ sshTarget = 0
    /\ respBody = NoText
    /\ events = << >>


\* ------------------------------------------------------------------
\* Control flow helpers
\* ------------------------------------------------------------------
\* An exception nobody catches leaves run_orchestrator and __main__: the
\* interpreter prints the traceback and exits with status 1.
Crash(e) ==
    /\ pc' = "crashed"
    /\ exc' = e
    /\ exitStatus' = "exit1"

\* End of one iteration of `for s in servers` (continue, or end of body).
NextServer ==
    /\ pc' = "loop"
    /\ idx' = idx + 1
    /\ caller' = "none"
    /\ cmd' = <<"none">>
    /\ sshCode' = 0
    /\ detail' = NoDetail
    /\ msg' = NoMsg
    /\ sshTarget' = 0
    /\ respBody' = NoText

\* ------------------------------------------------------------------
\* load_config and the head of run_orchestrator
\* ------------------------------------------------------------------
\* Bug variant of LoadFormat: any suffix other than .json is read as YAML.
LoadFormatLenient(suffix) ==
    IF suffix = JsonSuffix THEN "json" ELSE "yaml"

\* The branch of load_config chosen by p.suffix
LoadFormat(suffix) ==
    IF suffix \in YamlSuffixes THEN "yaml"
    ELSE IF suffix = JsonSuffix THEN "json"
    ELSE "unsupported"

\* The exception load_config raises, "none" when it returns the config:
\* open() comes first, then the suffix test, then the parser.
LoadError(suffix, file) ==
    IF file = "missing" THEN "FileNotFoundError"
    ELSE IF LoadFormat(suffix) = "unsupported" THEN "ValueError"
    ELSE IF file = "malformed"
      THEN (IF LoadFormat(suffix) = "yaml" THEN "YAMLError" ELSE "JSONDecodeError")
    ELSE "none"

LoadConfig ==
    /\ pc = "start"
    /\ IF LoadError(cfgSuffix, cfgFile) # "none"
         THEN /\ Crash(LoadError(cfgSuffix, cfgFile))
              /\ UNCHANGED <<servers, idx>>
         ELSE /\ \E srvs \in ServerLists : servers' = srvs
              /\ idx' = 1
              /\ pc' = "loop"
              /\ UNCHANGED <<exc, exitStatus>>
    /\ UNCHANGED <<cfgVars, caller, cmd, sshCode, detail, msg, countVars, hcResult,
                   sshTarget, respBody, events>>

\* ------------------------------------------------------------------
\* health_check
\* ------------------------------------------------------------------
\* Bug variant of HttpOk: `or` instead of `and`
HttpOkEither(hc, status, body) ==
    \/ status = Get(hc.expected_status, DefaultExpectedStatus)
    \/ hc.contains # {} /\ Contains(body, Get(hc.contains, NoText))

\* ok of the http branch
HttpOk(hc, status, body) ==
    /\ status = Get(hc.expected_status, DefaultExpectedStatus)
    /\ hc.contains # {} => Contains(body, Get(hc.contains, NoText))

\* ok of the remote_cmd branch (truthiness of `ok and re.search(...)`)
CmdOk(hc, code, out) ==
    /\ code = 0
    /\ hc.expect_stdout_regex # {} =>
          ReSearch(Get(hc.expect_stdout_regex, [bol |-> FALSE, lit |-> NoText, eol |-> FALSE]), out)

Verdict(ok) == IF ok THEN "healthy" ELSE "unhealthy"

\* `for s in servers`: take the next server and enter health_check, up to
\* its first blocking call or its return.
BeginServer ==
    /\ pc = "loop"
    /\ idx <= Len(servers)
    /\ hcCalls' = [hcCalls EXCEPT ![idx] = @ + 1]
    /\ events' = Append(events, [kind |-> "check", srv |-> idx])
    /\ LET s == servers[idx] IN
         IF s.type = {}
           THEN \* hc["type"] raises KeyError
                /\ hcResult' = [hcResult EXCEPT ![idx] = "raised"]
                /\ Crash("KeyError")
                /\ UNCHANGED <<caller, cmd, detail, sshTarget>>
         ELSE IF s.type = {"http"}
           THEN /\ pc' = "http_get"
                /\ UNCHANGED <<hcResult, exc, exitStatus, caller, cmd, detail, sshTarget>>
         ELSE IF s.type = {"remote_cmd"}
           THEN /\ pc' = "ssh_connect"
                /\ caller' = "check"
                /\ cmd' = <<s.command>>
                /\ sshTarget' = idx
                /\ UNCHANGED <<hcResult, exc, exitStatus, detail>>
         ELSE /\ hcResult' = [hcResult EXCEPT ![idx] = "unhealthy"]
              /\ detail' = [NoDetail EXCEPT !.kind = "Unknown health_check type"]
              /\ pc' = "verdict"
              /\ UNCHANGED <<exc, exitStatus, caller, cmd, sshTarget>>
    /\ UNCHANGED <<cfgVars, servers, idx, sshCode, msg, restartCalls, notifyCalls,
                   postOutcome, httpGets, webhookPosts, sshOpened, openSessions,
                   respBody>>

\* requests.get inside try/except Exception
HttpGet ==
    /\ pc = "http_get"
    /\ httpGets' = httpGets + 1
    /\ \/ \E status \in HttpStatuses, body \in HttpBodies :
            /\ hcResult' = [hcResult EXCEPT
                   ![idx] = Verdict(HttpOk(servers[idx], status, body))]
            /\ detail' = [NoDetail EXCEPT !.kind = "HTTP", !.code = status]
            /\ respBody' = body
       \/ /\ hcResult' = [hcResult EXCEPT ![idx] = "unhealthy"]
          /\ detail' = [NoDetail EXCEPT !.kind = "HTTP error"]
          /\ respBody' = NoText
    /\ pc' = "verdict"
    /\ UNCHANGED <<cfgVars, servers, idx, caller, cmd, sshCode, msg, exc, exitStatus,
                   hcCalls, restartCalls, notifyCalls, postOutcome, webhookPosts,
                   sshOpened, openSessions, sshTarget, events>>


\* ------------------------------------------------------------------
\* run_ssh
\* ------------------------------------------------------------------
\* An exception inside run_ssh: neither health_check nor restart_service
\* nor run_orchestrator has a try around the call, so it leaves them all.
\* client.close() is not reached.
SshRaise(e) ==
    /\ Crash(e)
    /\ hcResult' = IF caller = "check"
                     THEN [hcResult EXCEPT ![idx] = "raised"]
                     ELSE hcResult

\* client.connect(..., timeout=10)
SshConnect ==
    /\ pc = "ssh_connect"
    /\ \/ /\ pc' = "ssh_exec"
          /\ sshOpened' = sshOpened + 1
          /\ openSessions' = openSessions + 1
          /\ UNCHANGED <<exc, exitStatus, hcResult>>
       \/ /\ \E e \in ConnectFailures : SshRaise(e)
          /\ UNCHANGED <<sshOpened, openSessions>>
    /\ UNCHANGED <<cfgVars, servers, idx, caller, cmd, sshCode, detail, msg,
                   hcCalls, restartCalls, notifyCalls, postOutcome, httpGets,
                   webhookPosts, sshTarget, respBody, events>>

\* client.exec_command(command, timeout=10)
SshExec ==
    /\ pc = "ssh_exec"
    /\ \/ /\ pc' = "ssh_wait"
          /\ UNCHANGED <<exc, exitStatus, hcResult>>
       \/ \E e \in ExecFailures : SshRaise(e)
    /\ UNCHANGED <<cfgVars, servers, idx, caller, cmd, sshCode, detail, msg,
                   hcCalls, restartCalls, notifyCalls, postOutcome, httpGets,
                   webhookPosts, sshOpened, openSessions, sshTarget, respBody,
                   events>>

\* stdout.channel.recv_exit_status(): it takes no timeout and the timeout
\* given to exec_command does not bound it, so it returns the exit status
\* or, when the remote command never ends, it never returns.
SshWait ==
    /\ pc = "ssh_wait"
    /\ \/ /\ \E code \in ExitCodes : sshCode' = code
          /\ pc' = "ssh_read"
       \/ /\ pc' = "blocked"
          /\ UNCHANGED sshCode
    /\ UNCHANGED <<cfgVars, servers, idx, caller, cmd, detail, msg, exc, exitStatus,
                   countVars, hcResult, sshTarget, respBody, events>>

\* Bug variant of RestartOk: any non-positive exit code counts as success
RestartOkNonPositive(code) == code <= 0

\* ok = (code == 0) of run_orchestrator
RestartOk(code) == code = 0

\* Bug variant of CloseSession: client.close() is missing
CloseSessionMissing(open) == open

\* client.close()
CloseSession(open) == open - 1

\* stdout.read(), stderr.read(), client.close(), return; then the rest of
\* the caller: health_check builds its verdict, run_orchestrator builds msg.
SshRead ==
    /\ pc = "ssh_read"
    /\ \/ \E out \in Stdouts, err \in Stderrs :
            /\ <<out, err>> \in SshOutputs
            /\ openSessions' = CloseSession(openSessions)
            /\ IF caller = "check"
                 THEN /\ hcResult' = [hcResult EXCEPT
                             ![idx] = Verdict(CmdOk(servers[idx], sshCode, out))]
                      /\ detail' = [kind |-> "exit", code |-> sshCode,
                                    out |-> out, err |-> err]
                      /\ pc' = "verdict"
                      /\ msg' = msg
                 ELSE /\ msg' = [text |-> IF RestartOk(sshCode) THEN "Restart OK"
                                                               ELSE "Restart FAILED",
                                 code |-> sshCode, out |-> out, err |-> err]
                      /\ pc' = "notify"
                      /\ UNCHANGED <<hcResult, detail>>
            /\ UNCHANGED <<exc, exitStatus>>
       \/ /\ \E e \in ReadFailures : SshRaise(e)
          /\ UNCHANGED <<openSessions, detail, msg>>
    /\ UNCHANGED <<cfgVars, servers, idx, caller, cmd, sshCode, hcCalls,
                   restartCalls, notifyCalls, postOutcome, httpGets, webhookPosts,
                   sshOpened, sshTarget, respBody, events>>

\* ------------------------------------------------------------------
\* restart_service
\* ------------------------------------------------------------------
\* Bug variant of RestartCmd: the service field wins over restart_command
RestartCmdServiceFirst(s) ==
    IF s.service # {}
      THEN <<"sudo systemctl restart ", Get(s.service, "None")>>
      ELSE <<Get(s.restart_command, "")>>

\* server.get("restart_command", f"sudo systemctl restart {service}")
RestartCmd(s) ==
    IF s.restart_command # {}
      THEN <<Get(s.restart_command, "")>>
      ELSE <<"sudo systemctl restart ", Get(s.service, "None")>>

\* ------------------------------------------------------------------
\* run_orchestrator: the loop body after health_check returned
\* ------------------------------------------------------------------
\* Bug variant of Decide: notify_discord is called before restart_service.
DecideNotifyFirst ==
    /\ pc = "verdict"
    /\ IF hcResult[idx] = "healthy"
         THEN /\ NextServer
              /\ UNCHANGED <<restartCalls, notifyCalls, events>>
         ELSE /\ notifyCalls' = [notifyCalls EXCEPT ![idx] = @ + 1]
              /\ restartCalls' = [restartCalls EXCEPT ![idx] = @ + 1]
              /\ events' = events \o <<[kind |-> "notify", srv |-> idx],
                                       [kind |-> "restart", srv |-> idx]>>
              /\ caller' = "restart"
              /\ cmd' = RestartCmd(servers[idx])
              /\ sshTarget' = idx
              /\ respBody' = NoText
              /\ pc' = "ssh_connect"
              /\ UNCHANGED <<idx, sshCode, detail, msg>>
    /\ UNCHANGED <<cfgVars, servers, exc, exitStatus, hcCalls, hcResult,
                   postOutcome, httpGets, webhookPosts, sshOpened, openSessions>>

\* Bug variant of Decide: the `continue` of the healthy branch is missing.
DecideNoContinue ==
    /\ pc = "verdict"
    /\ restartCalls' = [restartCalls EXCEPT ![idx] = @ + 1]
    /\ events' = Append(events, [kind |-> "restart", srv |-> idx])
    /\ caller' = "restart"
    /\ cmd' = RestartCmd(servers[idx])
    /\ sshTarget' = idx
    /\ respBody' = NoText
    /\ pc' = "ssh_connect"
    /\ UNCHANGED <<idx, sshCode, detail, msg>>
    /\ UNCHANGED <<cfgVars, servers, exc, exitStatus, hcCalls, hcResult,
                   notifyCalls, postOutcome, httpGets, webhookPosts, sshOpened,
                   openSessions>>

\* `if healthy: ... continue`, else the call of restart_service up to its
\* first blocking call.
Decide ==
    /\ pc = "verdict"
    /\ IF hcResult[idx] = "healthy"
         THEN /\ NextServer
              /\ UNCHANGED <<restartCalls, events>>
         ELSE /\ restartCalls' = [restartCalls EXCEPT ![idx] = @ + 1]
              /\ events' = Append(events, [kind |-> "restart", srv |-> idx])
              /\ caller' = "restart"
              /\ cmd' = RestartCmd(servers[idx])
              /\ sshTarget' = idx
              /\ respBody' = NoText
              /\ pc' = "ssh_connect"
              /\ UNCHANGED <<idx, sshCode, detail, msg>>
    /\ UNCHANGED <<cfgVars, servers, exc, exitStatus, hcCalls, hcResult,
                   notifyCalls, postOutcome, httpGets, webhookPosts, sshOpened,
                   openSessions>>

\* ------------------------------------------------------------------
\* notify_discord
\* ------------------------------------------------------------------
\* Bug variant of NoWebhook: `if webhook is None`
NoWebhookNoneOnly(w) == w = {}

\* `not webhook`: unset (None) or the empty string
NoWebhook(w) == w = {} \/ w = {""}

\* The call of notify_discord up to its early return or its blocking post.
Notify ==
    /\ pc = "notify"
    /\ notifyCalls' = [notifyCalls EXCEPT ![idx] = @ + 1]
    /\ events' = Append(events, [kind |-> "notify", srv |-> idx])
    /\ IF NoWebhook(webhook)
         THEN NextServer
         ELSE /\ pc' = "webhook_post"
              /\ UNCHANGED <<idx, caller, cmd, sshCode, detail, msg, sshTarget,
                             respBody>>
    /\ UNCHANGED <<cfgVars, servers, exc, exitStatus, hcCalls, hcResult,
                   restartCalls, postOutcome, httpGets, webhookPosts, sshOpened,
                   openSessions>>

\* Bug variant of WebhookPost: no try/except, only a 2xx response returns.
WebhookPostUncaught ==
    /\ pc = "webhook_post"
    /\ webhookPosts' = webhookPosts + 1
    /\ \E o \in PostOutcomes :
         /\ postOutcome' = [postOutcome EXCEPT ![idx] = o]
         /\ IF o = "2xx"
              THEN /\ NextServer
                   /\ UNCHANGED <<exc, exitStatus>>
              ELSE /\ Crash(o)
                   /\ UNCHANGED <<idx, caller, cmd, sshCode, detail, msg, sshTarget,
                                  respBody>>
    /\ UNCHANGED <<cfgVars, servers, hcCalls, hcResult, restartCalls, notifyCalls,
                   httpGets, sshOpened, openSessions, events>>

\* requests.post + raise_for_status inside try/except Exception; then
\* notify_discord returns and the loop body ends.
WebhookPost ==
    /\ pc = "webhook_post"
    /\ webhookPosts' = webhookPosts + 1
    /\ \E o \in PostOutcomes : postOutcome' = [postOutcome EXCEPT ![idx] = o]
    /\ NextServer
    /\ UNCHANGED <<cfgVars, servers, exc, exitStatus, hcCalls, hcResult,
                   restartCalls, notifyCalls, httpGets, sshOpened, openSessions,
                   events>>

\* The loop is exhausted: run_orchestrator returns and the process exits 0.
Finish ==
    /\ pc = "loop"
    /\ idx > Len(servers)
    /\ pc' = "done"
    /\ exitStatus' = "exit0"
    /\ UNCHANGED <<cfgVars, servers, idx, caller, cmd, sshCode, detail, msg, exc,
                   countVars, hcResult, sshTarget, respBody, events>>

Next ==
    \/ LoadConfig
    \/ BeginServer
    \/ HttpGet
    \/ SshConnect
    \/ SshExec
    \/ SshWait
    \/ SshRead
    \/ Decide
    \/ Notify
    \/ WebhookPost
    \/ Finish

Spec == Init /\ [][Next]_vars

\* ------------------------------------------------------------------
\* One pass over a config of a single server, the server record drawn
\* from every combination of the optional keys health_check and
\* restart_service read.
\* ------------------------------------------------------------------
T_re_dy == <<"r", "e", ".", "d", "y">>
T_A == <<"A">>
T_F == <<"F">>

ExpectedStatusOpts == {{}, {200}, {500}}
ContainsOpts == {{}, {T_ready}, {T_re_dy}}
RegexOpts ==
    {{}, {[bol |-> TRUE, lit |-> T_OK, eol |-> TRUE]},
         {[bol |-> FALSE, lit |-> T_A, eol |-> FALSE]},
         {[bol |-> TRUE, lit |-> T_F, eol |-> FALSE]}}
RestartCommandOpts == {{}, {"/opt/app/restart.sh"}}
ServiceOpts == {{}, {"nginx"}}

HttpSpecs ==
    {[type |-> {"http"}, expected_status |-> e, contains |-> c,
      command |-> "", expect_stdout_regex |-> {},
      restart_command |-> rc, service |-> sv] :
        e \in ExpectedStatusOpts, c \in ContainsOpts,
        rc \in RestartCommandOpts, sv \in ServiceOpts}
CmdSpecs ==
    {[type |-> {"remote_cmd"}, expected_status |-> {}, contains |-> {},
      command |-> "systemctl is-active nginx", expect_stdout_regex |-> re,
      restart_command |-> rc, service |-> sv] :
        re \in RegexOpts, rc \in RestartCommandOpts, sv \in ServiceOpts}

InitHC ==
    /\ cfgSuffix = ".yaml"
    /\ cfgFile = "ok"
    /\ webhook \in WebhookEnv
    /\ servers \in {<<s>> : s \in HttpSpecs \cup CmdSpecs \cup {UnknownType}}
    /\ pc = "loop"
    /\ idx = 1
    /\ caller = "none"
    /\ cmd = <<"none">>
    /\ sshCode = 0
    /\ detail = NoDetail
    /\ msg = NoMsg
    /\ exc = "none"
    /\ exitStatus = "running"
    /\ hcCalls = [i \in Slots |-> 0]
    /\ hcResult = [i \in Slots |-> "none"]
    /\ restartCalls = [i \in Slots |-> 0]
    /\ notifyCalls = [i \in Slots |-> 0]
    /\ postOutcome = [i \in Slots |-> "none"]
    /\ httpGets = 0
    /\ webhookPosts = 0
    /\ sshOpened = 0
    /\ openSessions = 0
    /\ sshTarget = 0
    /\ respBody = NoText
    /\ events = << >>

NextHC ==
    \/ BeginServer
    \/ HttpGet
    \/ SshConnect
    \/ SshExec
    \/ SshWait
    \/ SshRead
    \/ Decide
    \/ Notify
    \/ WebhookPost
    \/ Finish

SpecHC == InitHC /\ [][NextHC]_vars


\* ------------------------------------------------------------------
\* Properties
\* ------------------------------------------------------------------
PassEnded == pc \in {"done", "crashed"}
Loaded == 1..Len(servers)
InRunSsh == pc \in {"ssh_connect", "ssh_exec", "ssh_wait", "ssh_read", "blocked"}
\* every server record of the config has a health_check type key
TypedConfig == \A i \in Loaded : servers[i].type # {}

\* C1: when a pass over a config whose servers all name a check type has
\* ended, health_check has been called exactly once for each of the N
\* configured servers, whatever the remote outcomes were.
C1_ExactlyNHealthChecks ==
    (PassEnded /\ TypedConfig) => \A i \in Loaded : hcCalls[i] = 1

\* C2: when a pass has ended, every server whose health_check returned an
\* unhealthy verdict has had exactly one restart_service call and exactly
\* one notify_discord call, whatever the remediation outcome.
C2_UnhealthyOneRestartOneNotify ==
    PassEnded =>
        \A i \in Loaded :
            hcResult[i] = "unhealthy" => restartCalls[i] = 1 /\ notifyCalls[i] = 1

\* C3: a server whose health_check returned healthy gets no restart_service
\* and no notify_discord call in the pass; once the verdict is acted upon the
\* loop is past that server.
C3_HealthyNoAction ==
    \A i \in Loaded :
        hcResult[i] = "healthy" =>
            /\ restartCalls[i] = 0
            /\ notifyCalls[i] = 0
            /\ idx > i \/ (idx = i /\ pc = "verdict")

C3_Witness ==
    \E i \in Loaded : hcResult[i] = "healthy" /\ hcCalls[i] = 1 /\ idx > i

\* C4: a remote-executor failure (connect, authentication, exec, timeout)
\* never aborts the pass: the process never ends on an exception of run_ssh.
C4_SshFailureNeverAborts ==
    pc = "crashed" => exc \notin SshExceptions

\* C5: health_check never raises: for a server that names a check type
\* (http, remote_cmd or an unknown one), every call that has ended has
\* returned a verdict.
C5_HealthCheckNeverRaises ==
    \A i \in Loaded : servers[i].type # {} => hcResult[i] # "raised"

\* C6: no SSH session is open outside a run_ssh call: each session opened by
\* run_ssh is closed when run_ssh returns or fails.
C6_SessionClosedAfterRunSsh ==
    ~InRunSsh => openSessions = 0

\* C7: notify_discord returns normally for every outcome of the webhook post
\* (2xx, non-2xx, transport exception, timeout) and the loop goes on to the
\* next server.
C7_NotifyNeverFails ==
    \A i \in Loaded :
        postOutcome[i] # "none" => idx > i /\ notifyCalls[i] = 1

C7_Witness ==
    \E i \in Loaded :
        /\ postOutcome[i] \in {"non2xx", "ConnectionError", "Timeout"}
        /\ idx > i
        /\ pc = "done"

\* C8: with DISCORD_WEBHOOK unset or empty, notify_discord makes no network
\* call and returns: no post is ever made or pending, and the loop is past
\* every server notify_discord was called for.
C8_NoWebhookNoPost ==
    webhook \in {{}, {""}} =>
        /\ webhookPosts = 0
        /\ pc # "webhook_post"
        /\ \A i \in Loaded : notifyCalls[i] = 1 => idx > i

C8_Witness ==
    /\ webhook = {""}
    /\ \E i \in Loaded : notifyCalls[i] = 1
    /\ pc = "done"

\* C9: the process exits with a non-zero status only when the config could
\* not be loaded or parsed: once a config whose servers all name a check type
\* is loaded, the process never exits with status 1.
C9_NonZeroExitOnlyOnConfigError ==
    (exitStatus = "exit1" /\ TypedConfig) => exc \in ConfigErrors

\* C10: with a config file suffix other than .yaml, .yml and .json,
\* run_orchestrator fails with a configuration error before any server is
\* processed: no health check, SSH session, HTTP probe or webhook post.
C10_BadSuffixFailsFast ==
    (cfgSuffix \notin {".yaml", ".yml", ".json"} /\ pc # "start") =>
        /\ pc = "crashed"
        /\ exc \in {"FileNotFoundError", "ValueError"}
        /\ servers = << >>
        /\ \A i \in Slots : hcCalls[i] = 0 /\ restartCalls[i] = 0 /\ notifyCalls[i] = 0
        /\ httpGets = 0
        /\ sshOpened = 0
        /\ webhookPosts = 0

C10_Witness ==
    /\ cfgSuffix = ".txt"
    /\ cfgFile = "ok"
    /\ pc = "crashed"
    /\ exc = "ValueError"


\* Position of a call in the body of the loop
Rank(kind) == CASE kind = "check" -> 1 [] kind = "restart" -> 2 [] kind = "notify" -> 3

\* C11: the calls of a pass are ordered by server position and, for one
\* server, health check, then remediation, then notification: no call for
\* a later server precedes a call for an earlier one, a remediation is
\* preceded by the health check of its server and a notification by its
\* remediation.
C11_EventsInOrder ==
    /\ \A p, q \in 1..Len(events) :
          p < q =>
             \/ events[p].srv < events[q].srv
             \/ /\ events[p].srv = events[q].srv
                /\ Rank(events[p].kind) < Rank(events[q].kind)
    /\ \A q \in 1..Len(events) :
          Rank(events[q].kind) > 1 =>
             /\ q > 1
             /\ events[q - 1].srv = events[q].srv
             /\ Rank(events[q - 1].kind) = Rank(events[q].kind) - 1

C11_Witness ==
    /\ Len(events) >= 5
    /\ events[3] = [kind |-> "notify", srv |-> 1]
    /\ events[5] = [kind |-> "restart", srv |-> 2]


\* health_check has returned for the server at idx, through its http branch
\* with a response / through its remote_cmd branch
HttpVerdictReady == pc = "verdict" /\ detail.kind = "HTTP"
CmdVerdictReady == pc = "verdict" /\ servers[idx].type = {"remote_cmd"}

\* text occurs in body at some position, character for character
OccursIn(text, body) ==
    \E i \in 1..(Len(body) - Len(text) + 1) :
        SubSeq(body, i, i + Len(text) - 1) = text

\* the status the server record expects
ExpectedOf(hc) ==
    IF hc.expected_status = {} THEN 200
    ELSE CHOOSE v \in hc.expected_status : TRUE

\* C12: when the GET returned a response, the verdict is healthy iff the
\* status equals expected_status (200 when unset) and, when contains is set,
\* the body contains it as a literal substring; status 500 with
\* expected_status unset is unhealthy whatever contains is.
C12_HttpVerdict ==
    HttpVerdictReady =>
        LET hc == servers[idx] IN
        /\ hcResult[idx] = "healthy" <=>
              /\ detail.code = ExpectedOf(hc)
              /\ \A text \in hc.contains : OccursIn(text, respBody)
        /\ (detail.code = 500 /\ hc.expected_status = {}) =>
              hcResult[idx] = "unhealthy"

C12_Witness ==
    /\ HttpVerdictReady
    /\ detail.code = 500
    /\ servers[idx].expected_status = {}
    /\ servers[idx].contains = {T_ready}
    /\ respBody = T_ready
    /\ hcResult[idx] = "unhealthy"

\* C13 as stated: with contains "ready" and body "not ready yet" the
\* verdict is unhealthy, also when the status matches.
C13_NotReadyYetUnhealthy ==
    (HttpVerdictReady /\ servers[idx].contains = {T_ready}
        /\ respBody = T_not_ready_yet) =>
        hcResult[idx] = "unhealthy"

\* C13 amended: with contains "ready" and body "not ready yet" the body
\* contains "ready", so the verdict is healthy exactly when the status
\* equals expected_status.
C13_NotReadyYetFollowsStatus ==
    (HttpVerdictReady /\ servers[idx].contains = {T_ready}
        /\ respBody = T_not_ready_yet) =>
        (hcResult[idx] = "healthy" <=> detail.code = ExpectedOf(servers[idx]))

C13_Witness ==
    /\ HttpVerdictReady
    /\ servers[idx].contains = {T_ready}
    /\ respBody = T_not_ready_yet
    /\ detail.code = 200
    /\ hcResult[idx] = "healthy"

\* pattern is found somewhere in text (anchors respected)
FoundIn(pattern, text) ==
    \E i \in 1..(Len(text) - Len(pattern.lit) + 1) :
        /\ SubSeq(text, i, i + Len(pattern.lit) - 1) = pattern.lit
        /\ pattern.bol => i = 1
        /\ pattern.eol => i + Len(pattern.lit) - 1 = Len(text)

\* C14: when the remote command completed, the verdict is healthy iff the
\* exit code is 0 and, when a stdout pattern is configured, the pattern is
\* found somewhere in stdout; the detail carries exit code, stdout and
\* stderr whatever the verdict.
C14_CmdVerdict ==
    CmdVerdictReady =>
        /\ detail.kind = "exit"
        /\ detail.code = sshCode
        /\ detail.out \in Stdouts
        /\ detail.err \in Stderrs
        /\ hcResult[idx] = "healthy" <=>
              /\ sshCode = 0
              /\ \A pattern \in servers[idx].expect_stdout_regex :
                    FoundIn(pattern, detail.out)

C14_Witness ==
    /\ CmdVerdictReady
    /\ servers[idx].expect_stdout_regex = {[bol |-> FALSE, lit |-> T_A, eol |-> FALSE]}
    /\ detail.out = T_FAIL
    /\ sshCode = 0
    /\ hcResult[idx] = "healthy"

\* C15: for a server whose health_check spec has an unknown check type or no
\* check type, health_check returns an unhealthy verdict (it does not raise).
C15_UnknownOrMissingTypeUnhealthy ==
    \A i \in Loaded :
        (servers[i].type \notin {{"http"}, {"remote_cmd"}} /\ hcCalls[i] = 1) =>
            hcResult[i] = "unhealthy"

\* restart_service is running its command for the server at idx
Restarting == caller = "restart" /\ InRunSsh

\* C16 as stated: restart_command verbatim, else "sudo systemctl restart
\* <service>", with an empty service name when neither key is present.
C16_RestartCommandEmptyService ==
    Restarting =>
        LET s == servers[idx] IN
        cmd = IF s.restart_command # {}
                THEN <<CHOOSE c \in s.restart_command : TRUE>>
              ELSE IF s.service # {}
                THEN <<"sudo systemctl restart ", CHOOSE v \in s.service : TRUE>>
              ELSE <<"sudo systemctl restart ", "">>

\* C16 amended: restart_command verbatim, else "sudo systemctl restart
\* <service>"; when neither key is present the command is
\* "sudo systemctl restart None".  It is run against the server record that
\* was health-checked and found unhealthy.
C16_RestartCommandNoneService ==
    Restarting =>
        LET s == servers[idx] IN
        /\ cmd = IF s.restart_command # {}
                   THEN <<CHOOSE c \in s.restart_command : TRUE>>
                 ELSE IF s.service # {}
                   THEN <<"sudo systemctl restart ", CHOOSE v \in s.service : TRUE>>
                 ELSE <<"sudo systemctl restart ", "None">>
        /\ sshTarget = idx
        /\ hcCalls[idx] = 1
        /\ hcResult[idx] = "unhealthy"

C16_Witness ==
    /\ Restarting
    /\ pc = "ssh_read"
    /\ servers[idx].restart_command = {}
    /\ servers[idx].service = {}

\* C17: the remediation outcome and the text of the notification say
\* "Restart OK" iff the exit code of the restart command is exactly 0; every
\* other code, negative ones included, gives "Restart FAILED".
C17_RestartOkIffZero ==
    pc \in {"notify", "webhook_post"} =>
        /\ msg.code = sshCode
        /\ msg.text \in {"Restart OK", "Restart FAILED"}
        /\ msg.text = "Restart OK" <=> msg.code = 0

C17_Witness ==
    /\ pc = "webhook_post"
    /\ msg.code = -1
    /\ msg.text = "Restart FAILED"


\* C18: what is done for a server does not depend on the outcomes of another
\* server: in a pass over a config whose servers all name a check type, when
\* the pass has ended and another server was handled in it, this server was
\* health-checked too, whatever the other server's remote calls returned.
C18_HandledWhateverOthersDo ==
    (PassEnded /\ TypedConfig) =>
        \A i \in Loaded :
            (\E j \in Loaded : j # i /\ hcResult[j] # "none") =>
                hcResult[i] \in {"healthy", "unhealthy"}

\* run_ssh calls made so far: remote_cmd health checks and restarts
RunSshCalls ==
    Cardinality({q \in 1..Len(events) :
        \/ events[q].kind = "restart"
        \/ events[q].kind = "check" /\ servers[events[q].srv].type = {"remote_cmd"}})

\* C19: at most one SSH session is open at any moment, it belongs to the
\* run_ssh call in progress for the server being processed, each run_ssh
\* call opens at most one session of its own, and none is open when a
\* run_ssh call starts or when the loop is between two servers.
C19_OneFreshSessionPerCall ==
    /\ openSessions \in {0, 1}
    /\ sshOpened <= RunSshCalls
    /\ pc \in {"ssh_exec", "ssh_wait", "ssh_read", "blocked"} =>
          openSessions = 1 /\ sshTarget = idx /\ sshOpened >= 1
    /\ pc \in {"start", "loop", "http_get", "ssh_connect", "verdict", "notify",
               "webhook_post", "done"} => openSessions = 0

C19_Witness ==
    /\ pc = "ssh_exec"
    /\ idx = 2
    /\ sshOpened = 3
    /\ openSessions = 1

\* C20: no blocking remote step waits forever: each one returns or fails on
\* its timeout.
C20_NoStepBlocksForever ==
    pc # "blocked"

====
